---- MODULE Spec2Model ----
(***************************************************************************)
(* rcdtool: scripts/rcdtool_from_messages.py (the batch driver: line       *)
(* parsing, link resolution, sanitize_filename, execution of each line)    *)
(* and src/rcdtool/rcdtool.py (RCD.download_media with its progress        *)
(* callback and its download_file compatibility shim).                     *)
(*                                                                         *)
(* Text is modelled as a sequence of one-character strings.                *)
(***************************************************************************)
EXTENDS Integers, Sequences, FiniteSets, TLC

VARIABLES
    \* sanitize_filename applied to a description
    name_in, name_out, san_pc,
    \* main: the command line, the environment, the position in main and its
    \* exit code, the RCD objects built, the loop's ln_num and exclude_names,
    \* what the line just read was parsed to and caused, the output names
    \* handed to a downloader, the download_media calls made, the rcdtool
    \* processes run, the DRY lines printed
    args, env, main_pc, main_ret, rcd_clients, ln_num, exclude_names, cur,
    handed, n_download, n_subprocess, n_dry,
    \* RCD.download_media: its arguments and the client's state, its position
    \* and return value, the local files, the media being downloaded
    \* (media_idx, n_done), the inspected signature and the download_file
    \* calls of the running _dl_file, the result of filetype.guess
    dl_in, dl_pc, dl_ret, files, media_idx, n_done, sig, attempts, guessed,
    \* _progress: its nonlocals, the clock reading of its last call, the
    \* number of its calls, the clock readings of the progress log lines
    last_t, last_b, now, n_calls, progress_log

sanVars == <<name_in, name_out, san_pc>>

mainVars == <<args, env, main_pc, main_ret, rcd_clients, ln_num, exclude_names,
              cur, handed, n_download, n_subprocess, n_dry>>

dlVars == <<dl_in, dl_pc, dl_ret, files, media_idx, n_done, sig, attempts, guessed,
            last_t, last_b, now, n_calls, progress_log>>

vars == <<sanVars, mainVars, dlVars>>

----------------------------------------------------------------------------
(* Characters *)

WordChars  == {"a", "b", "f", "i", "l", "e", "t", "u", "x", "q",
               "0", "1", "2", "3", "9", "_"}
Digits     == {"0", "1", "2", "3", "9"}
SpaceChars == {" ", "\t", "\n"}
KeptPunct  == {"(", ")", ".", "-"}
OtherChars == {"/", "\\", ":", "*", ";", "#", "?", "+"}
Chars      == WordChars \cup SpaceChars \cup KeptPunct \cup OtherChars

FILE == <<"f", "i", "l", "e">>

----------------------------------------------------------------------------
(* str methods and re.sub, as used by the script *)

RECURSIVE LStrip(_, _)
LStrip(s, set) ==
    IF s # <<>> /\ Head(s) \in set THEN LStrip(Tail(s), set) ELSE s

RECURSIVE RStrip(_, _)
RStrip(s, set) ==
    IF s # <<>> /\ s[Len(s)] \in set THEN RStrip(SubSeq(s, 1, Len(s) - 1), set) ELSE s

\* s.strip(chars); s.strip() is Strip(s, SpaceChars)
Strip(s, set) == RStrip(LStrip(s, set), set)

\* s.replace(from, to) for single characters
Replace(s, from, to) == [i \in 1..Len(s) |-> IF s[i] = from THEN to ELSE s[i]]

\* re.sub(r"[class]{min,}", <<to>>, s): every maximal run of at least min
\* characters of the class becomes the single character to
RECURSIVE SubRuns(_, _, _, _)
SubRuns(s, class, min, to) ==
    IF s = <<>> THEN <<>>
    ELSE IF Head(s) \notin class THEN <<Head(s)>> \o SubRuns(Tail(s), class, min, to)
    ELSE LET rest == LStrip(s, class)
             run  == Len(s) - Len(rest)
         IN  (IF run >= min THEN <<to>> ELSE SubSeq(s, 1, run))
             \o SubRuns(rest, class, min, to)

----------------------------------------------------------------------------
(* sanitize_filename *)

\* [^\w\s().\-]
Disallowed == Chars \ (WordChars \cup SpaceChars \cup KeptPunct)

\* sanitize_filename without the substitution of the disallowed characters
sanitize_filename_noSub(name) ==
    LET n0 == Strip(name, SpaceChars)
        n1 == Replace(Replace(n0, "/", "_"), "\\", "_")
        n4 == SubRuns(n1, SpaceChars, 1, " ")
        n5 == SubRuns(n4, {"_"}, 2, "_")
        n6 == Strip(n5, {" ", ".", "-", "_"})
    IN  IF n0 = <<>> THEN FILE
        ELSE IF n6 = <<>> THEN FILE ELSE n6

\* sanitize_filename with the final strip trimming underscores only
sanitize_filename_trimUnderscore(name) ==
    LET n0 == Strip(name, SpaceChars)
        n1 == Replace(Replace(n0, "/", "_"), "\\", "_")
        n2 == Replace(n1, ":", "_")
        n3 == SubRuns(n2, Disallowed, 1, "_")
        n4 == SubRuns(n3, SpaceChars, 1, " ")
        n5 == SubRuns(n4, {"_"}, 2, "_")
        n6 == Strip(n5, {"_"})
    IN  IF n0 = <<>> THEN FILE
        ELSE IF n6 = <<>> THEN FILE ELSE n6

sanitize_filename(name) ==
    LET n0 == Strip(name, SpaceChars)
        n1 == Replace(Replace(n0, "/", "_"), "\\", "_")
        n2 == Replace(n1, ":", "_")
        n3 == SubRuns(n2, Disallowed, 1, "_")
        n4 == SubRuns(n3, SpaceChars, 1, " ")
        n5 == SubRuns(n4, {"_"}, 2, "_")
        n6 == Strip(n5, {" ", ".", "-", "_"})
    IN  IF n0 = <<>> THEN FILE
        ELSE IF n6 = <<>> THEN FILE ELSE n6

----------------------------------------------------------------------------
(* Splitting, as main does it *)

\* c in s
Contains(s, c) == \E i \in 1..Len(s) : s[i] = c

\* the index of the first c in s, 0 when there is none
RECURSIVE IndexOf(_, _)
IndexOf(s, c) ==
    IF s = <<>> THEN 0
    ELSE IF Head(s) = c THEN 1
    ELSE LET r == IndexOf(Tail(s), c) IN IF r = 0 THEN 0 ELSE r + 1

\* s.split(c, 1)[0] and s.split(c, 1)[1] (the latter only used when c in s)
Before(s, c) == IF Contains(s, c) THEN SubSeq(s, 1, IndexOf(s, c) - 1) ELSE s
After(s, c)  == SubSeq(s, IndexOf(s, c) + 1, Len(s))

\* s.split(c): the list of the segments between the c's
RECURSIVE Split(_, _)
Split(s, c) ==
    IF ~Contains(s, c) THEN <<s>>
    ELSE <<Before(s, c)>> \o Split(After(s, c), c)

SLASH_C == <<"/", "c", "/">>

\* the index at which "/c/" first starts in s, 0 when "/c/" not in s
RECURSIVE FindSlashC(_)
FindSlashC(s) ==
    IF Len(s) < 3 THEN 0
    ELSE IF SubSeq(s, 1, 3) = SLASH_C THEN 1
    ELSE LET r == FindSlashC(Tail(s)) IN IF r = 0 THEN 0 ELSE r + 1

NonEmpty(seg) == seg # <<>>

\* s.isdigit()
IsDigit(s) == s # <<>> /\ \A i \in 1..Len(s) : s[i] \in Digits

\* _is_numlike: s.lstrip("+-").isdigit()
is_numlike(s) == IsDigit(LStrip(s, {"+", "-"}))

\* chan_msg is None
NoPair == <<>>

\* main, the link resolution: chan_msg
ResolveLink(link) ==
    IF FindSlashC(link) = 0 THEN NoPair
    ELSE LET after_c == SubSeq(link, FindSlashC(link) + 3, Len(link))
             cut     == Before(Before(after_c, "?"), "#")
             parts   == SelectSeq(Split(cut, "/"), NonEmpty)
         IN  IF Len(parts) >= 2 /\ is_numlike(parts[1])
             THEN LET message_id ==
                          IF Len(parts) = 2
                          THEN (IF is_numlike(parts[2]) THEN parts[2] ELSE NoPair)
                          ELSE (IF is_numlike(parts[Len(parts)])
                                THEN parts[Len(parts)] ELSE NoPair)
                  IN  IF message_id # NoPair THEN <<parts[1], message_id>> ELSE NoPair
             ELSE NoPair

\* the line split at its last ';'
SplitLine_lastSemicolon(line) ==
    IF Contains(line, ";")
    THEN LET k == CHOOSE i \in 1..Len(line) :
                     line[i] = ";" /\ \A j \in (i + 1)..Len(line) : line[j] # ";"
         IN  [link |-> Strip(SubSeq(line, 1, k - 1), SpaceChars),
              desc |-> Strip(SubSeq(line, k + 1, Len(line)), SpaceChars)]
    ELSE [link |-> line, desc |-> <<>>]

\* main, the split of a stripped line into link and description
SplitLine(line) ==
    IF Contains(line, ";")
    THEN [link |-> Strip(Before(line, ";"), SpaceChars),
          desc |-> Strip(After(line, ";"), SpaceChars)]
    ELSE [link |-> line, desc |-> <<>>]

\* a line that is skipped without a message: blank or a comment
IsSkipped(line) == line = <<>> \/ Head(line) = "#"

----------------------------------------------------------------------------
(* Specification SpecSanitize: descriptions up to MaxLen characters are    *)
(* typed in one character at a time and sanitize_filename is applied.      *)

MaxLen == 4

\* the characters descriptions are drawn from: one of each class the
\* function distinguishes
DescChars == {"a", "_", " ", "\t", ".", "-", "(", "/", "\\", ":", "*"}

SanIdle ==
    /\ name_in = <<>>
    /\ name_out = <<>>
    /\ san_pc = "idle"

MainIdle ==
    /\ args = [mode |-> "inproc", dry_run |-> FALSE, detailed_name |-> FALSE]
    /\ env = [have_inproc |-> TRUE, file_exists |-> TRUE, config_exists |-> TRUE]
    /\ main_pc = "idle"
    /\ main_ret = -1
    /\ rcd_clients = 0
    /\ ln_num = 0
    /\ exclude_names = <<>>
    /\ cur = [effect |-> "idle"]
    /\ handed = <<>>
    /\ n_download = 0
    /\ n_subprocess = 0
    /\ n_dry = 0

DlIdle ==
    /\ dl_in = [dry_mode |-> FALSE, infer_extension |-> FALSE, workers |-> 0,
                cfg_workers |-> 4, media |-> "None"]
    /\ dl_pc = "idle"
    /\ dl_ret = "unset"
    /\ files = {}
    /\ media_idx = 0
    /\ n_done = 0
    /\ sig = "unset"
    /\ attempts = <<>>
    /\ guessed = "unset"
    /\ last_t = 0
    /\ last_b = 0
    /\ now = 0
    /\ n_calls = 0
    /\ progress_log = <<>>

SanInit ==
    /\ name_in = <<>>
    /\ name_out = <<>>
    /\ san_pc = "input"
    /\ MainIdle
    /\ DlIdle

TypeChar ==
    /\ san_pc = "input"
    /\ Len(name_in) < MaxLen
    /\ \E c \in DescChars : name_in' = Append(name_in, c)
    /\ UNCHANGED <<name_out, san_pc, mainVars, dlVars>>

CallSanitize ==
    /\ san_pc = "input"
    /\ name_out' = sanitize_filename(name_in)
    /\ san_pc' = "done"
    /\ UNCHANGED <<name_in, mainVars, dlVars>>

SanNext == TypeChar \/ CallSanitize

SpecSanitize == SanInit /\ [][SanNext]_vars

----------------------------------------------------------------------------
(* main of scripts/rcdtool_from_messages.py *)

MaxLines == 3

T == <<"t">>

\* the links of the input: the three URL shapes and their edge cases
Links ==
    { T \o SLASH_C \o <<"1", "/", "2">>,                       \* /c/<channel>/<message>
      T \o SLASH_C \o <<"1", "/", "9", "/", "2">>,             \* /c/<channel>/<topic>/<message>
      T \o SLASH_C \o <<"1", "/", "2", "?", "q", "/", "3">>,   \* a query string
      T \o SLASH_C \o <<"1", "/", "2", "#", "9">>,             \* a fragment
      T \o SLASH_C \o <<"-", "1", "/", "+", "2">>,             \* signed ids
      T \o SLASH_C \o <<"-", "-", "1", "/", "2">>,             \* two signs
      T \o SLASH_C \o <<"-", "/", "2">>,                       \* a sign alone
      T \o SLASH_C \o <<"x", "/", "2">>,                       \* the channel not numeric
      T \o SLASH_C \o <<"1", "/", "x">>,                       \* the message not numeric
      T \o SLASH_C \o <<"1", "/", "x", "/", "2">>,             \* the topic not numeric
      T \o SLASH_C \o <<"1", "/", "2", "/", "x">>,             \* the last segment not numeric
      T \o SLASH_C \o <<"1">>,                                 \* one segment
      T \o SLASH_C \o <<"1", "/", "/", "2">>,                  \* an empty segment
      T \o <<"/", "u", "/", "2">> }                            \* /<username>/<message>

\* what follows the link on its line
Tails ==
    { <<>>,
      <<" ", ";", " ", "a">>,
      <<";", "a", ";", "b", " ">> }

\* the lines of the input file, each with its line break
Lines ==
    { l \o <<"\n">> :
        l \in { <<>>, <<" ", "\t">>, <<"#", "a">>, <<" ", "#", ";", "a">>,
                <<";", "a">>, <<" ", ";", " ">> }
              \cup { <<" ">> \o link \o tail : link \in Links, tail \in Tails } }

\* main, lines 160-202: what main reads from one line
ParseLine(raw) ==
    LET line == Strip(raw, SpaceChars)
        sp   == SplitLine(line)
    IN  [raw      |-> raw,
         skip     |-> IF IsSkipped(line) THEN "blank"
                      ELSE IF sp.link = <<>> THEN "nolink" ELSE "no",
         link     |-> sp.link,
         desc     |-> sp.desc,
         out_base |-> IF sp.desc # <<>> THEN sanitize_filename(sp.desc) ELSE FILE,
         chan_msg |-> ResolveLink(sp.link)]

Parsed == [raw \in Lines |-> ParseLine(raw)]

Range(q) == {q[i] : i \in 1..Len(q)}

DigitChar == <<"0", "1", "2", "3", "4", "5", "6", "7", "8", "9">>

\* rcdtool.main.generate_unique_filename: the base name (with the suffix when
\* detailed), made different from every excluded name by a counter
generate_unique_filename(base, detailed, suffix, exclude) ==
    LET b == IF detailed THEN base \o suffix ELSE base
        free == {k \in 1..Len(DigitChar) :
                    b \o <<"-", DigitChar[k]>> \notin Range(exclude)}
        k0 == CHOOSE k \in free : \A j \in free : k <= j
    IN  IF b \notin Range(exclude) THEN b ELSE b \o <<"-", DigitChar[k0]>>

use_inproc == args.mode = "inproc" /\ env.have_inproc

NoCmd == [kind |-> "none", C |-> <<>>, M |-> <<>>, link |-> <<>>, O |-> <<>>]

\* main, lines 245-249: the rcdtool command of a line (the option flags of
\* lines 250-257 are the same for every line and are left out)
Command(p) ==
    IF p.chan_msg # NoPair
    THEN [kind |-> "CM", C |-> p.chan_msg[1], M |-> p.chan_msg[2], link |-> <<>>,
          O |-> p.out_base]
    ELSE [kind |-> "link", C |-> <<>>, M |-> <<>>, link |-> p.link, O |-> p.out_base]

Cur(p, effect, cmd, out, printed) ==
    [raw |-> p.raw, link |-> p.link, desc |-> p.desc, out_base |-> p.out_base,
     chan_msg |-> p.chan_msg, effect |-> effect, cmd |-> cmd, out |-> out,
     printed |-> printed]

MainInit ==
    /\ args \in [mode : {"inproc", "subprocess"}, dry_run : BOOLEAN,
                 detailed_name : BOOLEAN]
    /\ env \in [have_inproc : BOOLEAN, file_exists : BOOLEAN, config_exists : BOOLEAN]
    /\ main_pc = "start"
    /\ main_ret = -1
    /\ rcd_clients = 0
    /\ ln_num = 0
    /\ exclude_names = <<>>
    /\ cur = [effect |-> "idle"]
    /\ handed = <<>>
    /\ n_download = 0
    /\ n_subprocess = 0
    /\ n_dry = 0
    /\ SanIdle
    /\ DlIdle

\* main, lines 132-135: the input file is missing
InputMissing ==
    /\ main_pc = "start"
    /\ ~env.file_exists
    /\ main_pc' = "returned"
    /\ main_ret' = 2
    /\ UNCHANGED <<args, env, rcd_clients, ln_num, exclude_names, cur, handed,
                   n_download, n_subprocess, n_dry, sanVars, dlVars>>

\* main, lines 141-151: the executor is resolved, no client is built
StartSubprocess ==
    /\ main_pc = "start"
    /\ env.file_exists
    /\ ~use_inproc
    /\ main_pc' = "loop"
    /\ UNCHANGED <<args, env, main_ret, rcd_clients, ln_num, exclude_names, cur,
                   handed, n_download, n_subprocess, n_dry, sanVars, dlVars>>

\* main, line 154, and RCD.__init__: the single client is built; get_config
\* raises FileNotFoundError when the config file is missing, and main does
\* not catch it
StartInproc ==
    /\ main_pc = "start"
    /\ env.file_exists
    /\ use_inproc
    /\ IF env.config_exists
       THEN /\ rcd_clients' = rcd_clients + 1
            /\ main_pc' = "loop"
       ELSE /\ rcd_clients' = rcd_clients
            /\ main_pc' = "raised"
    /\ UNCHANGED <<args, env, main_ret, ln_num, exclude_names, cur, handed,
                   n_download, n_subprocess, n_dry, sanVars, dlVars>>

\* main, lines 160-162: a blank line or a comment
SkipLine ==
    /\ main_pc = "loop"
    /\ ln_num < MaxLines
    /\ \E raw \in Lines :
          /\ Parsed[raw].skip = "blank"
          /\ cur' = Cur(Parsed[raw], "none", NoCmd, <<>>, <<>>)
    /\ ln_num' = ln_num + 1
    /\ UNCHANGED <<args, env, main_pc, main_ret, rcd_clients, exclude_names, handed,
                   n_download, n_subprocess, n_dry, sanVars, dlVars>>

\* main, lines 172-174: a line with no link
SkipNoLink ==
    /\ main_pc = "loop"
    /\ ln_num < MaxLines
    /\ \E raw \in Lines :
          /\ Parsed[raw].skip = "nolink"
          /\ cur' = Cur(Parsed[raw], "none", NoCmd, <<>>, <<"Skip">>)
    /\ ln_num' = ln_num + 1
    /\ UNCHANGED <<args, env, main_pc, main_ret, rcd_clients, exclude_names, handed,
                   n_download, n_subprocess, n_dry, sanVars, dlVars>>

\* main, line 214: if args.dry_run, in the inproc branch
DryInproc == args.dry_run

\* the dry-run test of the command branch, honoured only when a client exists
DryCommand_inprocOnly == args.dry_run /\ use_inproc

\* main, line 259: if args.dry_run, in the command branch
DryCommand == args.dry_run

\* main, lines 204-233: the line is downloaded through the client
InprocLine ==
    /\ main_pc = "loop"
    /\ ln_num < MaxLines
    /\ use_inproc
    /\ \E raw \in Lines :
          LET p == Parsed[raw]
              final_output ==
                  generate_unique_filename(
                      p.out_base, args.detailed_name,
                      <<"-">> \o p.chan_msg[1] \o <<"-">> \o p.chan_msg[2],
                      exclude_names)
          IN  /\ p.skip = "no"
              /\ p.chan_msg # NoPair
              /\ exclude_names' = Append(exclude_names, final_output)
              /\ IF DryInproc
                 THEN /\ cur' = Cur(p, "dry", NoCmd, final_output, <<"DRY INPROC">>)
                      /\ n_dry' = n_dry + 1
                      /\ UNCHANGED <<n_download, handed>>
                 ELSE /\ \E res \in {"name", "None", "Error"} :
                            cur' = Cur(p, "download", NoCmd, final_output,
                                       <<"Line">> \o (IF res = "None" THEN <<>> ELSE <<res>>))
                      /\ n_download' = n_download + 1
                      /\ handed' = Append(handed, final_output)
                      /\ UNCHANGED n_dry
    /\ ln_num' = ln_num + 1
    /\ UNCHANGED <<args, env, main_pc, main_ret, rcd_clients, n_subprocess, sanVars, dlVars>>

\* main, lines 234-270: the line is given to the rcdtool command
CommandLine ==
    /\ main_pc = "loop"
    /\ ln_num < MaxLines
    /\ \E raw \in Lines :
          LET p == Parsed[raw]
          IN  /\ p.skip = "no"
              /\ ~(use_inproc /\ p.chan_msg # NoPair)
              /\ IF DryCommand
                 THEN /\ cur' = Cur(p, "dry", Command(p), p.out_base, <<"DRY">>)
                      /\ n_dry' = n_dry + 1
                      /\ UNCHANGED <<n_subprocess, handed, main_pc, main_ret>>
                 ELSE \E rc \in {"zero", "nonzero", "FileNotFoundError"} :
                        /\ UNCHANGED n_dry
                        /\ IF rc = "FileNotFoundError"
                           THEN /\ cur' = Cur(p, "notfound", Command(p), p.out_base,
                                              <<"Line", "Executor not found">>)
                                /\ main_pc' = "returned"
                                /\ main_ret' = 127
                                /\ UNCHANGED <<n_subprocess, handed>>
                           ELSE /\ cur' = Cur(p, "subprocess", Command(p), p.out_base,
                                              <<"Line">> \o (IF rc = "zero" THEN <<>>
                                                             ELSE <<"Error">>))
                                /\ n_subprocess' = n_subprocess + 1
                                /\ handed' = Append(handed, p.out_base)
                                /\ UNCHANGED <<main_pc, main_ret>>
    /\ ln_num' = ln_num + 1
    /\ UNCHANGED <<args, env, rcd_clients, exclude_names, n_download, sanVars, dlVars>>

\* main, line 272: the end of the file
EndOfFile ==
    /\ main_pc = "loop"
    /\ main_pc' = "returned"
    /\ main_ret' = 0
    /\ UNCHANGED <<args, env, rcd_clients, ln_num, exclude_names, cur, handed,
                   n_download, n_subprocess, n_dry, sanVars, dlVars>>

MainNext ==
    \/ InputMissing
    \/ StartSubprocess
    \/ StartInproc
    \/ SkipLine
    \/ SkipNoLink
    \/ InprocLine
    \/ CommandLine
    \/ EndOfFile

SpecMain == MainInit /\ [][MainNext]_vars

----------------------------------------------------------------------------
(* RCD.download_media of src/rcdtool/rcdtool.py *)

\* extended media of one paid message
MaxMedia == 2
\* calls of _progress during one download_media
MaxCalls == 3
\* clock readings, in half seconds
MaxClock == 5
\* bytes_downloaded
MaxBytes == 1

\* 1.0 second, in half seconds
OneSecond == 2

OUT     == "output_filename"
OUT_EXT == "output_filename.ext"

ProgressVars == <<last_t, last_b, now, n_calls, progress_log>>

DlInit ==
    /\ dl_in \in [dry_mode : BOOLEAN, infer_extension : BOOLEAN, workers : {0, 2},
                  cfg_workers : {0, 4}, media : {"None", "document", "paid"}]
    /\ dl_pc = "start"
    /\ dl_ret = "unset"
    /\ files = {}
    /\ media_idx = 0
    /\ n_done = 0
    /\ sig = "unset"
    /\ attempts = <<>>
    /\ guessed = "unset"
    /\ last_t = 0
    /\ last_b = 0
    /\ now = 0
    /\ n_calls = 0
    /\ progress_log = <<>>
    /\ SanIdle
    /\ MainIdle

\* a call of download_file: the keyword arguments passed and how it ended
Attempt(kwargs) == [kwargs |-> kwargs, result |-> "running"]

\* _dl_file, lines 238-246: the keyword arguments of the first attempt
FirstKwargs(s) ==
    {"file", "part_size_kb", "progress_callback"}
    \cup (IF s = "workers" /\ (dl_in.workers # 0 \/ dl_in.cfg_workers # 0)
          THEN {"workers"} ELSE {})

\* the fallback that drops part_size_kb with the callback
NextKwargs_eager(k, kwargs) ==
    kwargs \ {"progress_callback", "part_size_kb"}

\* _dl_file, lines 252 and 256-257: what attempt k + 1 passes after attempt k,
\* which passed kwargs, raised TypeError
NextKwargs(k, kwargs) ==
    IF k = 1 THEN kwargs \ {"progress_callback"}
    ELSE kwargs \ {"part_size_kb", "workers"}

\* lines 112-180: the entity, the message and (for a discussion) the comment
\* are fetched; each isinstance test that fails logs a warning and returns
\* None, an exception is logged by the handler of line 282, which returns None
Fetch ==
    /\ dl_pc = "start"
    /\ \E r \in {"ok", "warning", "exception"} :
          IF r = "ok"
          THEN dl_pc' = "fetched" /\ dl_ret' = dl_ret
          ELSE dl_pc' = "returned" /\ dl_ret' = "None"
    /\ UNCHANGED <<dl_in, files, media_idx, n_done, sig, attempts, guessed,
                   ProgressVars, sanVars, mainVars>>

\* lines 182-183
DryReturn ==
    /\ dl_pc = "fetched"
    /\ dl_in.dry_mode
    /\ dl_pc' = "returned"
    /\ dl_ret' = OUT
    /\ UNCHANGED <<dl_in, files, media_idx, n_done, sig, attempts, guessed,
                   ProgressVars, sanVars, mainVars>>

\* lines 185-188
NoMedia ==
    /\ dl_pc = "fetched"
    /\ ~dl_in.dry_mode
    /\ dl_in.media = "None"
    /\ dl_pc' = "returned"
    /\ dl_ret' = "None"
    /\ UNCHANGED <<dl_in, files, media_idx, n_done, sig, attempts, guessed,
                   ProgressVars, sanVars, mainVars>>

\* _dl_file, lines 231-249: the signature is inspected and download_file is
\* called for the first time
EnterDlFile ==
    \E s \in {"workers", "no workers", "not inspectable"} :
        /\ sig' = s
        /\ attempts' = <<Attempt(FirstKwargs(s))>>
        /\ dl_pc' = "attempt"

\* line 270: the media of an ordinary message
PlainDownload ==
    /\ dl_pc = "fetched"
    /\ ~dl_in.dry_mode
    /\ dl_in.media = "document"
    /\ EnterDlFile
    /\ media_idx' = 1
    /\ UNCHANGED <<dl_in, dl_ret, files, n_done, guessed, ProgressVars, sanVars, mainVars>>

AtPaidLoop ==
    /\ ~dl_in.dry_mode
    /\ dl_in.media = "paid"
    /\ dl_pc \in {"fetched", "dl_ok"}

\* lines 262-264: the next extended media of a paid message
PaidDownload ==
    /\ AtPaidLoop
    /\ media_idx < MaxMedia
    /\ EnterDlFile
    /\ media_idx' = media_idx + 1
    /\ UNCHANGED <<dl_in, dl_ret, files, n_done, guessed, ProgressVars, sanVars, mainVars>>

\* lines 265-267: the next extended media is not a MessageExtendedMedia
PaidPreview ==
    /\ AtPaidLoop
    /\ media_idx < MaxMedia
    /\ dl_pc' = "returned"
    /\ dl_ret' = "None"
    /\ media_idx' = media_idx + 1
    /\ UNCHANGED <<dl_in, files, n_done, sig, attempts, guessed, ProgressVars,
                   sanVars, mainVars>>

\* line 268 and the end of the try block: the loop over the extended media
\* is over, the function ends without a return statement
PaidEnd ==
    /\ AtPaidLoop
    /\ dl_pc' = "finished"
    /\ dl_ret' = "None"
    /\ UNCHANGED <<dl_in, files, media_idx, n_done, sig, attempts, guessed,
                   ProgressVars, sanVars, mainVars>>

\* _progress that records every clock reading
progress_alwaysRecord(t, b) ==
    IF last_t = 0
    THEN /\ last_t' = t
         /\ last_b' = b
         /\ progress_log' = progress_log
    ELSE /\ progress_log' = IF t - last_t >= OneSecond
                            THEN Append(progress_log, t) ELSE progress_log
         /\ last_t' = t
         /\ last_b' = b

\* _progress, lines 208-226, called at clock reading t with b bytes
progress(t, b) ==
    IF last_t = 0
    THEN /\ last_t' = t
         /\ last_b' = b
         /\ progress_log' = progress_log
    ELSE IF t - last_t >= OneSecond
    THEN /\ progress_log' = Append(progress_log, t)
         /\ last_t' = t
         /\ last_b' = b
    ELSE UNCHANGED <<last_t, last_b, progress_log>>

Running == attempts[Len(attempts)]

\* download_file calls the progress callback it was given
Progress ==
    /\ dl_pc = "attempt"
    /\ "progress_callback" \in Running.kwargs
    /\ n_calls < MaxCalls
    /\ \E t \in 1..MaxClock, b \in 0..MaxBytes :
          /\ now' = t
          /\ progress(t, b)
    /\ n_calls' = n_calls + 1
    /\ UNCHANGED <<dl_in, dl_pc, dl_ret, files, media_idx, n_done, sig, attempts,
                   guessed, sanVars, mainVars>>

Ended(result) == [attempts EXCEPT ![Len(attempts)].result = result]

\* download_file returns: the media is in the file
AttemptReturns ==
    /\ dl_pc = "attempt"
    /\ attempts' = Ended("returned")
    /\ files' = files \cup {OUT}
    /\ n_done' = n_done + 1
    /\ dl_pc' = "dl_ok"
    /\ UNCHANGED <<dl_in, dl_ret, media_idx, sig, guessed, ProgressVars, sanVars, mainVars>>

\* lines 250-258: download_file raises TypeError; the first and the second
\* attempt are followed by another, the TypeError of the third leaves
\* _dl_file and is logged by the handler of line 282
AttemptTypeError ==
    /\ dl_pc = "attempt"
    /\ IF Len(attempts) < 3
       THEN /\ attempts' = Append(Ended("TypeError"),
                                  Attempt(NextKwargs(Len(attempts), Running.kwargs)))
            /\ UNCHANGED <<dl_pc, dl_ret>>
       ELSE /\ attempts' = Ended("TypeError")
            /\ dl_pc' = "returned"
            /\ dl_ret' = "None"
    /\ UNCHANGED <<dl_in, files, media_idx, n_done, sig, guessed, ProgressVars,
                   sanVars, mainVars>>

\* download_file raises another exception: it leaves _dl_file and is logged
\* by the handler of line 282
AttemptError ==
    /\ dl_pc = "attempt"
    /\ attempts' = Ended("Exception")
    /\ dl_pc' = "returned"
    /\ dl_ret' = "None"
    /\ UNCHANGED <<dl_in, files, media_idx, n_done, sig, guessed, ProgressVars,
                   sanVars, mainVars>>

\* lines 271-281: the extension is inferred and the file renamed
PlainFinish ==
    /\ dl_pc = "dl_ok"
    /\ dl_in.media = "document"
    /\ dl_pc' = "finished"
    /\ IF dl_in.infer_extension
       THEN \E g \in {"ext", "None"} :
               /\ guessed' = g
               /\ IF g = "ext"
                  THEN files' = (files \ {OUT}) \cup {OUT_EXT} /\ dl_ret' = OUT_EXT
                  ELSE files' = files /\ dl_ret' = OUT
       ELSE /\ dl_ret' = OUT
            /\ UNCHANGED <<files, guessed>>
    /\ UNCHANGED <<dl_in, media_idx, n_done, sig, attempts, ProgressVars,
                   sanVars, mainVars>>

DlNext ==
    \/ Fetch
    \/ DryReturn
    \/ NoMedia
    \/ PlainDownload
    \/ PaidDownload
    \/ PaidPreview
    \/ PaidEnd
    \/ Progress
    \/ AttemptReturns
    \/ AttemptTypeError
    \/ AttemptError
    \/ PlainFinish

SpecDownload == DlInit /\ [][DlNext]_vars

----------------------------------------------------------------------------
(* C1: for every input string sanitize_filename returns a non-empty        *)
(* basename with no '/', '\', ':' and no character other than word         *)
(* characters, the single space, '(', ')', '.' and '-'; when nothing       *)
(* usable remains (no character of the input survives as a word character  *)
(* or a bracket) the result is exactly "file".                             *)

SafeChars == WordChars \cup {" "} \cup KeptPunct

Usable(s) == \E i \in 1..Len(s) : s[i] \in (WordChars \ {"_"}) \cup {"(", ")"}

C1_SafeBasename ==
    san_pc = "done" =>
        /\ name_out # <<>>
        /\ \A i \in 1..Len(name_out) :
              /\ name_out[i] \notin {"/", "\\", ":"}
              /\ name_out[i] \in SafeChars
        /\ (~Usable(name_in) => name_out = FILE)
        /\ (Usable(name_in) => Usable(name_out))

C1_Witness ==
    /\ san_pc = "done"
    /\ name_in = <<"a", "/", ":", "a">>
    /\ name_out = <<"a", "_", "a">>

(* C8: for every input string the result of sanitize_filename neither     *)
(* begins nor ends with a dot, a space or a dash.                          *)

C8_NoEdgeDotSpaceDash ==
    san_pc = "done" =>
        /\ name_out[1] \notin {".", " ", "-"}
        /\ name_out[Len(name_out)] \notin {".", " ", "-"}

C8_Witness ==
    /\ san_pc = "done"
    /\ name_in = <<"-", "a", " ", ".">>
    /\ name_out = <<"a">>

----------------------------------------------------------------------------
(* Claims about main *)

\* the line just read was processed: it reached one of the two executions
Processed == cur.effect \in {"dry", "download", "subprocess", "notfound"}

\* the line just read was read at all
WasRead == cur.effect # "idle"

NotSpace(c) == c \notin SpaceChars
NonSpace(s) == SelectSeq(s, NotSpace)

Trimmed(s) == s = <<>> \/ (s[1] \notin SpaceChars /\ s[Len(s)] \notin SpaceChars)

BlankOrComment(raw) == NonSpace(raw) = <<>> \/ Head(NonSpace(raw)) = "#"

(* C3: every line that is blank or starts with '#' after trimming is       *)
(* skipped and causes no download and no command; every other line is      *)
(* split at its first ';' into a trimmed link and a trimmed description    *)
(* (text after later ';' stays in the description); a line without ';' is  *)
(* a link with an empty description and base name "file"; a line whose     *)
(* link part is empty is skipped with a message and causes no download     *)
(* and no command.                                                         *)

C3_State ==
    WasRead =>
        IF BlankOrComment(cur.raw)
        THEN cur.effect = "none" /\ cur.printed = <<>> /\ cur.cmd = NoCmd
        ELSE /\ ~Contains(cur.link, ";")
             /\ Trimmed(cur.link) /\ Trimmed(cur.desc)
             /\ Contains(cur.raw, ";") =>
                    NonSpace(cur.raw) = NonSpace(cur.link \o <<";">> \o cur.desc)
             /\ ~Contains(cur.raw, ";") =>
                    /\ cur.link = NonSpace(cur.raw)
                    /\ cur.desc = <<>>
                    /\ cur.out_base = FILE
             /\ cur.link = <<>> =>
                    cur.effect = "none" /\ cur.printed = <<"Skip">> /\ cur.cmd = NoCmd
             /\ cur.link # <<>> => Processed

C3_Step ==
    (ln_num' = ln_num + 1 /\ cur'.effect = "none") =>
        /\ n_download' = n_download
        /\ n_subprocess' = n_subprocess
        /\ n_dry' = n_dry
        /\ handed' = handed
        /\ exclude_names' = exclude_names
        /\ main_pc' = main_pc

\* C3: the line just read is parsed as stated, and a skipped line causes
\* no download, no command and no DRY line
C3_InputParsing == []C3_State /\ [][C3_Step]_vars

C3_Witness ==
    /\ cur.effect = "subprocess"
    /\ cur.raw = <<" ">> \o T \o SLASH_C \o <<"1", "/", "2">>
                 \o <<";", "a", ";", "b", " ", "\n">>
    /\ cur.desc = <<"a", ";", "b">>
    /\ cur.out_base = <<"a", "_", "b">>

(* C2: for a link with three or more segments after /c/ the pair is (first *)
(* segment, last segment), for two segments it is (first, second); any     *)
(* query string or fragment is removed before splitting; a pair is         *)
(* produced only when both the channel and the message segment are numeric *)
(* with an optional leading sign, and otherwise the link is not resolved   *)
(* to a pair and is passed whole with --link.                              *)

\* digits after at most one sign
SignedNumber(s) ==
    /\ s # <<>>
    /\ LET d == IF Head(s) \in {"+", "-"} THEN Tail(s) ELSE s
       IN  d # <<>> /\ \A i \in 1..Len(d) : d[i] \in Digits

\* the segments after /c/, the query string and the fragment removed
SegmentsAfterC(link) ==
    IF FindSlashC(link) = 0 THEN <<>>
    ELSE SelectSeq(
             Split(Before(Before(SubSeq(link, FindSlashC(link) + 3, Len(link)), "?"), "#"),
                   "/"),
             NonEmpty)

ClaimedPair(link) ==
    LET segs == SegmentsAfterC(link)
    IN  IF Len(segs) >= 2 /\ SignedNumber(segs[1]) /\ SignedNumber(segs[Len(segs)])
        THEN <<segs[1], segs[Len(segs)]>>
        ELSE NoPair

C2_LinkResolution ==
    Processed =>
        /\ cur.chan_msg = ClaimedPair(cur.link)
        /\ cur.chan_msg = NoPair => cur.cmd.kind = "link" /\ cur.cmd.link = cur.link

(* C4: within one run of main the output names handed to the downloader    *)
(* are pairwise distinct, in whichever way the lines are executed.         *)

C4_DistinctNames ==
    \A i, j \in 1..Len(handed) : i # j => handed[i] # handed[j]

(* C5: in inproc mode exactly one RCD client is created, before the first  *)
(* line is read, every processed line is downloaded through it, and no     *)
(* rcdtool subprocess is started at any point of the run.                  *)

C5_SingleClientNoSubprocess ==
    (args.mode = "inproc" /\ env.have_inproc /\ env.config_exists
        /\ main_pc \in {"loop", "returned"} /\ main_ret \in {-1, 0}) =>
        /\ rcd_clients = 1
        /\ n_subprocess = 0
        /\ cur.effect \notin {"subprocess", "notfound"}

(* C6 as stated: with --dry-run, for every input file and in both modes,   *)
(* main executes nothing (no download_media call, no subprocess), each     *)
(* processed line yields exactly one DRY line, and main returns 0.         *)

IsDry(tag) == tag \in {"DRY", "DRY INPROC"}

----------------------------------------------------------------------------
(* Claims about RCD.download_media *)

(* C7: whenever download_media (not in dry mode) finishes downloading the  *)
(* media of a message without error, for every kind of media including     *)
(* paid media, it returns the name of the local file that now holds the    *)
(* media: output_filename, or output_filename.ext when infer_extension is  *)
(* set and a type is guessed, the file having been renamed to that name.   *)

C7_ReturnsFileName ==
    (dl_pc = "finished" /\ n_done >= 1) =>
        /\ dl_ret # "None"
        /\ dl_ret \in files
        /\ dl_ret = IF dl_in.infer_extension /\ guessed = "ext" THEN OUT_EXT ELSE OUT

(* C9: download_file is called at most three times per media; a further    *)
(* attempt is made only after the previous one raised TypeError; the first *)
(* attempt passes file, part_size_kb and progress_callback, the second     *)
(* drops only progress_callback, the third drops part_size_kb and workers  *)
(* as well; file is passed on every attempt; workers is passed only when   *)
(* the inspected signature has a workers parameter; a TypeError from the   *)
(* third attempt is not retried.                                           *)

C9_CompatibilityShim ==
    /\ Len(attempts) <= 3
    /\ \A i \in 1..Len(attempts) :
          /\ i < Len(attempts) => attempts[i].result = "TypeError"
          /\ "file" \in attempts[i].kwargs
          /\ "workers" \in attempts[i].kwargs => sig = "workers"
    /\ Len(attempts) >= 1 =>
          /\ {"file", "part_size_kb", "progress_callback"} \subseteq attempts[1].kwargs
          /\ attempts[1].kwargs \subseteq
                 {"file", "part_size_kb", "progress_callback", "workers"}
    /\ Len(attempts) >= 2 =>
          attempts[2].kwargs = attempts[1].kwargs \ {"progress_callback"}
    /\ Len(attempts) >= 3 =>
          /\ attempts[3].kwargs = attempts[2].kwargs \ {"part_size_kb", "workers"}
          /\ attempts[3].kwargs = {"file"}
    /\ (Len(attempts) = 3 /\ attempts[3].result = "TypeError") =>
          dl_pc = "returned" /\ dl_ret = "None"

C9_Witness ==
    /\ Len(attempts) = 3
    /\ attempts[3].result = "TypeError"
    /\ "workers" \in attempts[2].kwargs
    /\ dl_pc = "returned"

(* C10: within one download the first call of _progress never logs, any    *)
(* two consecutive progress log lines are at least 1.0 second apart by the *)
(* clock readings taken in the callback, and a call arriving less than 1.0 *)
(* second after the last recorded reading logs nothing and leaves last_t   *)
(* and last_b unchanged.                                                   *)

C10_State ==
    /\ n_calls <= 1 => progress_log = <<>>
    /\ \A i \in 1..(Len(progress_log) - 1) :
          progress_log[i + 1] - progress_log[i] >= OneSecond

C10_Step ==
    (n_calls' = n_calls + 1 /\ n_calls >= 1 /\ now' - last_t < OneSecond) =>
        /\ progress_log' = progress_log
        /\ last_t' = last_t
        /\ last_b' = last_b

\* C10: the log lines are throttled as stated, and a call less than one
\* second after the last recorded reading changes nothing
C10_ProgressThrottling == []C10_State /\ [][C10_Step]_vars

C10_Witness ==
    /\ n_calls = 3
    /\ progress_log = <<3, 5>>
    /\ last_t = 5

====
